---- MODULE Spec2Model ----
(***************************************************************************)
(* A model of the fixed-dimension matrix type of src/src/matrix.rs.        *)
(*                                                                         *)
(* A Matrix<ROWS, COLS> is a record [rows, cols, elems]: the two const     *)
(* generic parameters and the backing array, a sequence whose element k+1  *)
(* is slot k of the Rust array.  Element values are small integers: every  *)
(* one of them, and every sum and product the operations form from them,   *)
(* is exactly representable as an f64, so integer arithmetic is what the   *)
(* f64 arithmetic of the code computes on these inputs.                    *)
(*                                                                         *)
(* Option<T> is [some |-> FALSE] or [some |-> TRUE, val |-> v]; a panic    *)
(* is a record with a "panic" field; a reference to an element is the      *)
(* record [slot, val] of the slot it addresses and the value stored there. *)
(***************************************************************************)
EXTENDS Integers, Sequences, FiniteSets, TLC

\* Largest ROWS / COLS instantiated.
MaxDim == 2
\* Largest number of tuple-indexed element writes before the operation under
\* test.
MaxWrites == 1

\* The f64 values the programs store, pass and scale by.
Elems == {-1, 0, 2}
Dims == 1..MaxDim
\* Row and column arguments: every in-bounds one and, for every shape, at
\* least one that is out of bounds.
Coords == 0..MaxDim

VARIABLES
    mats,    \* the matrices the program owns: <<a>> or <<a, b>>
    out,     \* the last operation: its name, its arguments and what it returned
    pc,      \* "run", "done" (the operation under test has returned) or "panicked"
    writes   \* number of element writes so far

vars == <<mats, out, pc, writes>>

------------------------------------------------------------------------------
\* Option, panics, arrays

None == [some |-> FALSE]

Some(v) == [some |-> TRUE, val |-> v]

IsPanic(v) == "panic" \in DOMAIN v

\* Option::unwrap
unwrap(opt) == IF opt.some THEN opt.val ELSE [panic |-> "unwrap on None"]

\* elems[i] on an array or slice: a reference to slot i, or the index panic.
array_index(elems, i) ==
    IF i < Len(elems)
    THEN [slot |-> i, val |-> elems[i + 1]]
    ELSE [panic |-> "index out of bounds", index |-> i, len |-> Len(elems)]

\* &elems[lo..hi]
slice_range(elems, lo, hi) ==
    IF lo <= hi /\ hi <= Len(elems)
    THEN [slice |-> SubSeq(elems, lo + 1, hi)]
    ELSE [panic |-> "range out of bounds", lo |-> lo, hi |-> hi, len |-> Len(elems)]

\* Faulty variant: a longer slice is truncated instead of refused.
try_into_truncating(elems, n) ==
    IF Len(elems) >= n THEN Some(SubSeq(elems, 1, n)) ELSE None

\* <[f64; n]>::try_from(&[f64]).ok()
try_into(elems, n) == IF Len(elems) = n THEN Some(elems) ELSE None

\* [elem; n]
repeat(elem, n) == [k \in 1..n |-> elem]

\* [[f64; ROWS]; COLS]::flatten
RECURSIVE flatten(_)
flatten(columns) ==
    IF columns = <<>> THEN <<>> ELSE Head(columns) \o flatten(Tail(columns))

Min(x, y) == IF x <= y THEN x ELSE y

------------------------------------------------------------------------------
\* impl Matrix<ROWS, COLS>

Matrix(ROWS, COLS, elems) == [rows |-> ROWS, cols |-> COLS, elems |-> elems]

from_array(ROWS, COLS, elems) == Matrix(ROWS, COLS, elems)

from_slice(ROWS, COLS, elems) ==
    LET elem_array == try_into(elems, ROWS * COLS)
    IN  IF elem_array.some
        THEN Some(from_array(ROWS, COLS, elem_array.val))
        ELSE None

filled(ROWS, COLS, elem) == from_array(ROWS, COLS, repeat(elem, ROWS * COLS))

empty(ROWS, COLS) == filled(ROWS, COLS, 0)

\* Faulty variant: the row-major linearization.
index_rowmajor(ROWS, COLS, row, col) ==
    IF row < ROWS /\ col < COLS THEN Some(row * COLS + col) ELSE None

\* The private helper Matrix::index.
index(ROWS, COLS, row, col) ==
    IF row < ROWS /\ col < COLS THEN Some(col * ROWS + row) ELSE None

bounds_panic(ROWS, COLS, row, col) ==
    [panic |-> "matrix index out of bounds",
     row |-> row, col |-> col, rows |-> ROWS, cols |-> COLS]

\* get: None, Some(reference) or the panic of the array access in the closure.
get(self, row, col) ==
    LET i == index(self.rows, self.cols, row, col)
    IN  IF i.some
        THEN LET r == array_index(self.elems, i.val)
             IN  IF IsPanic(r) THEN r ELSE Some(r)
        ELSE None

\* Faulty variant: an out-of-bounds index is clamped instead of panicking.
get_unsafe_clamped(self, row, col) ==
    LET i == index(self.rows, self.cols,
                   Min(row, self.rows - 1), Min(col, self.cols - 1))
    IN  array_index(self.elems, i.val)

get_unsafe(self, row, col) ==
    LET i == index(self.rows, self.cols, row, col)
    IN  IF i.some
        THEN array_index(self.elems, i.val)
        ELSE bounds_panic(self.rows, self.cols, row, col)

get_mut(self, row, col) ==
    LET i == index(self.rows, self.cols, row, col)
    IN  IF i.some
        THEN LET r == array_index(self.elems, i.val)
             IN  IF IsPanic(r) THEN r ELSE Some(r)
        ELSE None

get_mut_unsafe(self, row, col) ==
    LET i == index(self.rows, self.cols, row, col)
    IN  IF i.some
        THEN array_index(self.elems, i.val)
        ELSE bounds_panic(self.rows, self.cols, row, col)

\* impl Index<(usize, usize)>
Index_index(self, row, col) == get_unsafe(self, row, col)

\* impl IndexMut<(usize, usize)>
IndexMut_index_mut(self, row, col) == get_mut_unsafe(self, row, col)

\* Faulty variant: the value is inserted before the slot instead of replacing it.
store_shifting(self, ref, value) ==
    [self EXCEPT !.elems =
        SubSeq(self.elems, 1, ref.slot) \o <<value>>
            \o SubSeq(self.elems, ref.slot + 1, Len(self.elems))]

\* *ref = value, for a mutable reference into self.elems.
store(self, ref, value) ==
    [self EXCEPT !.elems = [self.elems EXCEPT ![ref.slot + 1] = value]]

\* self[(row, col)] = value: the matrix after the assignment, or the panic.
index_assign(self, row, col, value) ==
    LET ref == IndexMut_index_mut(self, row, col)
    IN  IF IsPanic(ref) THEN ref ELSE store(self, ref, value)

RECURSIVE identity_loop(_, _, _, _)
identity_loop(matrix, i, n, elem) ==
    IF i >= n
    THEN matrix
    ELSE LET next == index_assign(matrix, i, i, elem)
         IN  IF IsPanic(next) THEN next ELSE identity_loop(next, i + 1, n, elem)

\* Faulty variant: the diagonal loop runs over 0..ROWS.
identity_elems_rows(ROWS, COLS, elem) ==
    identity_loop(empty(ROWS, COLS), 0, ROWS, elem)

identity_elems(ROWS, COLS, elem) ==
    identity_loop(empty(ROWS, COLS), 0, Min(ROWS, COLS), elem)

identity(ROWS, COLS) == identity_elems(ROWS, COLS, 1)

\* Faulty variant: the zero-filled default.
default_empty(ROWS, COLS) == empty(ROWS, COLS)

\* impl Default
default(ROWS, COLS) == identity(ROWS, COLS)

\* The columns read row by row (the row-major array of the same matrix).
flatten_rows(ROWS, COLS, columns) ==
    [k \in 1..(ROWS * COLS) |->
        columns[((k - 1) % COLS) + 1][((k - 1) \div COLS) + 1]]

\* Faulty variant: the columns are laid out row-major.
from_cols_rowmajor(ROWS, COLS, columns) ==
    unwrap(from_slice(ROWS, COLS, flatten_rows(ROWS, COLS, columns)))

\* columns: COLS arrays of ROWS elements each.
from_cols(ROWS, COLS, columns) ==
    unwrap(from_slice(ROWS, COLS, flatten(columns)))

RECURSIVE cols_loop(_, _, _)
\* Faulty variant: column ci is taken to start at slot ci.
cols_loop_stride1(self, cols, ci) ==
    IF ci >= self.cols
    THEN cols
    ELSE LET i == ci
             s == slice_range(self.elems, i, i + self.rows)
         IN  IF IsPanic(s) THEN s
             ELSE LET v == unwrap(from_slice(self.rows, 1, s.slice))
                  IN  IF IsPanic(v) THEN v
                      ELSE cols_loop(self, [cols EXCEPT !.array[ci + 1] = v], ci + 1)

\* cols.iter_mut().enumerate().for_each(..), from element ci on; the array
\* being filled is the record [array |-> <<..>>].
cols_loop(self, cols, ci) ==
    IF ci >= self.cols
    THEN cols
    ELSE LET i == ci * self.rows
             s == slice_range(self.elems, i, i + self.rows)
         IN  IF IsPanic(s) THEN s
             ELSE LET v == unwrap(from_slice(self.rows, 1, s.slice))
                  IN  IF IsPanic(v) THEN v
                      ELSE cols_loop(self, [cols EXCEPT !.array[ci + 1] = v], ci + 1)

\* cols: [array |-> the COLS column vectors], or a panic.
cols(self) ==
    LET placeholder == default(self.rows, 1)
    IN  IF IsPanic(placeholder) THEN placeholder
        ELSE cols_loop(self, [array |-> repeat(placeholder, self.cols)], 0)

\* impl PartialEq
eq(self, other) == self.elems = other.elems

------------------------------------------------------------------------------
\* impl Add, Sub, Mul<f64>, Mul<Matrix>

RECURSIVE add_loop(_, _, _)
\* Faulty variant: the loop stops one element early.
add_loop_skip_last(elems, rhs, i) ==
    IF i >= Len(elems) - 1
    THEN elems
    ELSE add_loop([elems EXCEPT ![i + 1] = elems[i + 1] + rhs.elems[i + 1]], rhs, i + 1)

add_loop(elems, rhs, i) ==
    IF i >= Len(elems)
    THEN elems
    ELSE add_loop([elems EXCEPT ![i + 1] = elems[i + 1] + rhs.elems[i + 1]], rhs, i + 1)

add(self, rhs) == from_array(self.rows, self.cols, add_loop(self.elems, rhs, 0))

RECURSIVE sub_loop(_, _, _)
sub_loop(elems, rhs, i) ==
    IF i >= Len(elems)
    THEN elems
    ELSE sub_loop([elems EXCEPT ![i + 1] = elems[i + 1] - rhs.elems[i + 1]], rhs, i + 1)

sub(self, rhs) == from_array(self.rows, self.cols, sub_loop(self.elems, rhs, 0))

\* Mul<f64>: self.elems.map(|elem| elem * rhs)
mul_f64(self, rhs) ==
    Matrix(self.rows, self.cols, [k \in 1..Len(self.elems) |-> self.elems[k] * rhs])

RECURSIVE mul_cells(_, _, _, _, _, _)
\* Faulty variant: rhs is read at (col, cell).
mul_cells_swapped(self, rhs, row, col, cell, sum) ==
    IF cell >= self.cols
    THEN [sum |-> sum]
    ELSE LET x == Index_index(self, row, cell)
             y == Index_index(rhs, col, cell)
         IN  IF IsPanic(x) THEN x
             ELSE IF IsPanic(y) THEN y
             ELSE mul_cells(self, rhs, row, col, cell + 1, sum + x.val * y.val)

\* for cell in 0..A_COL_B_ROW, from `cell` on with the running sum.
mul_cells(self, rhs, row, col, cell, sum) ==
    IF cell >= self.cols
    THEN [sum |-> sum]
    ELSE LET x == Index_index(self, row, cell)
             y == Index_index(rhs, cell, col)
         IN  IF IsPanic(x) THEN x
             ELSE IF IsPanic(y) THEN y
             ELSE mul_cells(self, rhs, row, col, cell + 1, sum + x.val * y.val)

\* for row in 0..A_ROW, from `row` on.
RECURSIVE mul_rows(_, _, _, _, _)
mul_rows(self, rhs, output_matrix, col, row) ==
    IF row >= self.rows
    THEN output_matrix
    ELSE LET s == mul_cells(self, rhs, row, col, 0, 0)
         IN  IF IsPanic(s) THEN s
             ELSE LET o == index_assign(output_matrix, row, col, s.sum)
                  IN  IF IsPanic(o) THEN o
                      ELSE mul_rows(self, rhs, o, col, row + 1)

\* for col in 0..B_COL, from `col` on.
RECURSIVE mul_cols(_, _, _, _)
mul_cols(self, rhs, output_matrix, col) ==
    IF col >= rhs.cols
    THEN output_matrix
    ELSE LET o == mul_rows(self, rhs, output_matrix, col, 0)
         IN  IF IsPanic(o) THEN o ELSE mul_cols(self, rhs, o, col + 1)

\* Mul<Matrix<A_COL_B_ROW, B_COL>> for Matrix<A_ROW, A_COL_B_ROW>
mul(self, rhs) == mul_cols(self, rhs, empty(self.rows, rhs.cols), 0)

------------------------------------------------------------------------------
\* The programs: a matrix (or two) is constructed, elements are written, and
\* one operation is performed on the result.  The operations that take &self
\* or a copy leave the matrices as they were, so a run ends with the first
\* of them (pc = "done"); a panic ends the run too.

a == mats[1]

b == mats[2]

\* What the constructors without array arguments build for a shape.
Constructed(ROWS, COLS) ==
    {empty(ROWS, COLS), default(ROWS, COLS)}
        \cup {filled(ROWS, COLS, v) : v \in Elems}

\* Shape pairs for which a binary operator is implemented: equal shapes
\* (Add, Sub) or a.cols = b.rows (Mul).
Compatible(ar, ac, br, bc) == (ar = br /\ ac = bc) \/ ac = br

Init ==
    \E ROWS \in Dims, COLS \in Dims :
        \E m \in Constructed(ROWS, COLS) :
            /\ mats = <<m>>
            /\ out = [op |-> "new"]
            /\ pc = "run"
            /\ writes = 0

InitArith ==
    \E ar \in Dims, ac \in Dims, br \in Dims, bc \in Dims :
        /\ Compatible(ar, ac, br, bc)
        /\ \E x \in Constructed(ar, ac), y \in Constructed(br, bc) :
            /\ mats = <<x, y>>
            /\ out = [op |-> "new"]
            /\ pc = "run"
            /\ writes = 0

Finish(res) == IF IsPanic(res) THEN "panicked" ELSE "done"

\* mats[k][(row, col)] = value
IndexAssign ==
    /\ pc = "run"
    /\ writes < MaxWrites
    /\ \E k \in 1..Len(mats), row \in Coords, col \in Coords, value \in Elems :
        LET ref == IndexMut_index_mut(mats[k], row, col)
            res == index_assign(mats[k], row, col, value)
        IN  /\ out' = [op |-> "index_mut", k |-> k, row |-> row, col |-> col,
                       value |-> value, pre |-> mats[k], ref |-> ref, post |-> res]
            /\ mats' = IF IsPanic(res) THEN mats ELSE [mats EXCEPT ![k] = res]
            /\ pc' = IF IsPanic(res) THEN "panicked" ELSE "run"
    /\ writes' = writes + 1

\* *a.get_mut_unsafe(row, col) = value
GetMutUnsafeWrite ==
    /\ pc = "run"
    /\ \E row \in Coords, col \in Coords, value \in Elems :
        LET ref == get_mut_unsafe(a, row, col)
            res == IF IsPanic(ref) THEN ref ELSE store(a, ref, value)
        IN  /\ out' = [op |-> "get_mut_unsafe", k |-> 1, row |-> row, col |-> col,
                       value |-> value, pre |-> a, ref |-> ref, post |-> res]
            /\ mats' = IF IsPanic(res) THEN mats ELSE [mats EXCEPT ![1] = res]
            /\ pc' = Finish(res)
    /\ UNCHANGED writes

\* if let Some(elem) = a.get_mut(row, col) { *elem = value }
GetMutWrite ==
    /\ pc = "run"
    /\ \E row \in Coords, col \in Coords, value \in Elems :
        LET ref == get_mut(a, row, col)
            res == IF IsPanic(ref) THEN ref
                   ELSE IF ref.some THEN store(a, ref.val, value)
                   ELSE a
        IN  /\ out' = [op |-> "get_mut", k |-> 1, row |-> row, col |-> col,
                       value |-> value, pre |-> a, ref |-> ref, post |-> res]
            /\ mats' = IF IsPanic(res) THEN mats ELSE [mats EXCEPT ![1] = res]
            /\ pc' = Finish(res)
    /\ UNCHANGED writes

\* a.get(row, col)
Get ==
    /\ pc = "run"
    /\ \E row \in Coords, col \in Coords :
        LET ref == get(a, row, col)
        IN  /\ out' = [op |-> "get", row |-> row, col |-> col, pre |-> a, ref |-> ref]
            /\ pc' = Finish(ref)
    /\ UNCHANGED <<mats, writes>>

\* a.get_unsafe(row, col)
GetUnsafe ==
    /\ pc = "run"
    /\ \E row \in Coords, col \in Coords :
        LET ref == get_unsafe(a, row, col)
        IN  /\ out' = [op |-> "get_unsafe", row |-> row, col |-> col,
                       pre |-> a, ref |-> ref]
            /\ pc' = Finish(ref)
    /\ UNCHANGED <<mats, writes>>

\* a[(row, col)]
IndexRead ==
    /\ pc = "run"
    /\ \E row \in Coords, col \in Coords :
        LET ref == Index_index(a, row, col)
        IN  /\ out' = [op |-> "index", row |-> row, col |-> col,
                       pre |-> a, ref |-> ref]
            /\ pc' = Finish(ref)
    /\ UNCHANGED <<mats, writes>>

\* Matrix::<ROWS, COLS>::from_slice(&a.elems[..n]), for any target shape.
FromSlice ==
    /\ pc = "run"
    /\ \E ROWS \in Dims, COLS \in Dims, n \in 0..Len(a.elems) :
        LET src == SubSeq(a.elems, 1, n)
            res == from_slice(ROWS, COLS, src)
        IN  /\ out' = [op |-> "from_slice", rows |-> ROWS, cols |-> COLS,
                       src |-> src, res |-> res]
            /\ pc' = Finish(res)
    /\ UNCHANGED <<mats, writes>>

\* Self::filled(elem), Self the type of a
Filled ==
    /\ pc = "run"
    /\ \E elem \in Elems :
        LET res == filled(a.rows, a.cols, elem)
        IN  /\ out' = [op |-> "filled", rows |-> a.rows, cols |-> a.cols,
                       elem |-> elem, res |-> res]
            /\ pc' = Finish(res)
    /\ UNCHANGED <<mats, writes>>

\* Self::empty()
Empty ==
    /\ pc = "run"
    /\ LET res == empty(a.rows, a.cols)
       IN  /\ out' = [op |-> "empty", rows |-> a.rows, cols |-> a.cols, res |-> res]
           /\ pc' = Finish(res)
    /\ UNCHANGED <<mats, writes>>

\* Self::identity_elems(elem)
IdentityElems ==
    /\ pc = "run"
    /\ \E elem \in Elems :
        LET res == identity_elems(a.rows, a.cols, elem)
        IN  /\ out' = [op |-> "identity_elems", rows |-> a.rows, cols |-> a.cols,
                       elem |-> elem, res |-> res]
            /\ pc' = Finish(res)
    /\ UNCHANGED <<mats, writes>>

\* Self::identity()
Identity ==
    /\ pc = "run"
    /\ LET res == identity(a.rows, a.cols)
       IN  /\ out' = [op |-> "identity", rows |-> a.rows, cols |-> a.cols, res |-> res]
           /\ pc' = Finish(res)
    /\ UNCHANGED <<mats, writes>>

\* Self::default()
Default ==
    /\ pc = "run"
    /\ LET res == default(a.rows, a.cols)
       IN  /\ out' = [op |-> "default", rows |-> a.rows, cols |-> a.cols, res |-> res]
           /\ pc' = Finish(res)
    /\ UNCHANGED <<mats, writes>>

\* Every [[f64; ROWS]; COLS] over Elems.
ColumnArrays(ROWS, COLS) == [1..COLS -> [1..ROWS -> Elems]]

\* Self::from_cols(columns).  A constructor reads nothing of a but its type,
\* so it is run on freshly constructed matrices only.
FromCols ==
    /\ pc = "run"
    /\ writes = 0
    /\ \E columns \in ColumnArrays(a.rows, a.cols) :
        LET res == from_cols(a.rows, a.cols, columns)
        IN  /\ out' = [op |-> "from_cols", rows |-> a.rows, cols |-> a.cols,
                       columns |-> columns, res |-> res]
            /\ pc' = Finish(res)
    /\ UNCHANGED <<mats, writes>>

\* a.cols()
Cols ==
    /\ pc = "run"
    /\ LET res == cols(a)
       IN  /\ out' = [op |-> "cols", pre |-> a, res |-> res]
           /\ pc' = Finish(res)
    /\ UNCHANGED <<mats, writes>>

\* Matrix::from_cols(a.cols().map(|v| v.elems))
ColsFromCols ==
    /\ pc = "run"
    /\ LET cs == cols(a)
           res == IF IsPanic(cs) THEN cs
                  ELSE from_cols(a.rows, a.cols,
                                 [i \in 1..Len(cs.array) |-> cs.array[i].elems])
       IN  /\ out' = [op |-> "cols_from_cols", pre |-> a, res |-> res]
           /\ pc' = Finish(res)
    /\ UNCHANGED <<mats, writes>>

\* Matrix::<ROWS, ROWS>::default() * a
DefaultMul ==
    /\ pc = "run"
    /\ LET d == default(a.rows, a.rows)
           res == IF IsPanic(d) THEN d ELSE mul(d, a)
       IN  /\ out' = [op |-> "default_mul", pre |-> a, res |-> res]
           /\ pc' = Finish(res)
    /\ UNCHANGED <<mats, writes>>

\* a * Matrix::<COLS, COLS>::default()
MulDefault ==
    /\ pc = "run"
    /\ LET d == default(a.cols, a.cols)
           res == IF IsPanic(d) THEN d ELSE mul(a, d)
       IN  /\ out' = [op |-> "mul_default", pre |-> a, res |-> res]
           /\ pc' = Finish(res)
    /\ UNCHANGED <<mats, writes>>

\* a + b
Add ==
    /\ pc = "run"
    /\ a.rows = b.rows /\ a.cols = b.cols
    /\ LET res == add(a, b)
       IN  /\ out' = [op |-> "add", res |-> res]
           /\ pc' = Finish(res)
    /\ UNCHANGED <<mats, writes>>

\* a - b
Sub ==
    /\ pc = "run"
    /\ a.rows = b.rows /\ a.cols = b.cols
    /\ LET res == sub(a, b)
       IN  /\ out' = [op |-> "sub", res |-> res]
           /\ pc' = Finish(res)
    /\ UNCHANGED <<mats, writes>>

\* a * rhs, rhs an f64
MulScalar ==
    /\ pc = "run"
    /\ \E rhs \in Elems :
        LET res == mul_f64(a, rhs)
        IN  /\ out' = [op |-> "mul_f64", rhs |-> rhs, res |-> res]
            /\ pc' = Finish(res)
    /\ UNCHANGED <<mats, writes>>

\* a * b
Mul ==
    /\ pc = "run"
    /\ a.cols = b.rows
    /\ LET res == mul(a, b)
       IN  /\ out' = [op |-> "mul", res |-> res]
           /\ pc' = Finish(res)
    /\ UNCHANGED <<mats, writes>>

Next ==
    \/ IndexAssign
    \/ GetMutUnsafeWrite
    \/ GetMutWrite
    \/ Get
    \/ GetUnsafe
    \/ IndexRead
    \/ FromSlice
    \/ Filled
    \/ Empty
    \/ IdentityElems
    \/ Identity
    \/ Default
    \/ FromCols
    \/ Cols
    \/ ColsFromCols
    \/ DefaultMul
    \/ MulDefault

NextArith ==
    \/ IndexAssign
    \/ Add
    \/ Sub
    \/ MulScalar
    \/ Mul

Spec == Init /\ [][Next]_vars

SpecArith == InitArith /\ [][NextArith]_vars

------------------------------------------------------------------------------
\* The properties.  At(m, row, col) is the element the specification places
\* at (row, col) of a column-major matrix; the properties read results
\* through it, not through the accessors under test.

At(m, row, col) == m.elems[col * m.rows + row + 1]

Rows(m) == 0..(m.rows - 1)

ColsOf(m) == 0..(m.cols - 1)

WellShaped(m, ROWS, COLS) ==
    /\ ~IsPanic(m)
    /\ m.rows = ROWS
    /\ m.cols = COLS
    /\ Len(m.elems) = ROWS * COLS

\* Sum over k in 0..n-1 of x[(i, k)] * y[(k, j)].
RECURSIVE DotSum(_, _, _, _, _)
DotSum(x, y, i, j, n) ==
    IF n = 0 THEN 0
    ELSE DotSum(x, y, i, j, n - 1) + At(x, i, n - 1) * At(y, n - 1, j)

OutOfBounds(m, row, col) == row >= m.rows \/ col >= m.cols

\* C1: a * b has shape M x P and its element (i, j) is the sum over k of
\* a[(i,k)] * b[(k,j)], for every i and j, vector shapes included.
C1_MulIsRowByColumnSum ==
    out.op = "mul" =>
        /\ WellShaped(out.res, a.rows, b.cols)
        /\ \A i \in Rows(a), j \in ColsOf(b) :
            At(out.res, i, j) = DotSum(a, b, i, j, a.cols)

\* A 2x2 by 2x1 product one of whose elements sums two non-zero products.
C1_Witness ==
    /\ out.op = "mul"
    /\ a.rows = 2 /\ a.cols = 2 /\ b.cols = 1
    /\ \E i \in Rows(a) :
        /\ At(a, i, 0) * At(b, 0, 0) # 0
        /\ At(a, i, 1) * At(b, 1, 0) # 0
        /\ At(out.res, i, 0) # 0

\* C2: get returns None exactly when row >= R or col >= C; otherwise the
\* element at slot col*R + row, a slot of the array, so that element k of
\* the array is read at (k mod R, k div R).
C2_GetBoundsAndSlot ==
    out.op = "get" =>
        LET m == out.pre
            oob == OutOfBounds(m, out.row, out.col)
        IN  /\ ~IsPanic(out.ref)
            /\ ~out.ref.some <=> oob
            /\ ~oob =>
                /\ out.ref.val.slot = out.col * m.rows + out.row
                /\ out.ref.val.slot \in 0..(m.rows * m.cols - 1)
                /\ out.ref.val.val = m.elems[out.ref.val.slot + 1]
            /\ \A k \in 0..(m.rows * m.cols - 1) :
                (out.row = k % m.rows /\ out.col = k \div m.rows) =>
                    (out.ref.some /\ out.ref.val.val = m.elems[k + 1])

\* get(0, 1) on a 2x2 matrix whose slots 1 and 2 hold different values.
C2_Witness ==
    /\ out.op = "get"
    /\ out.pre.rows = 2 /\ out.pre.cols = 2
    /\ out.row = 0 /\ out.col = 1
    /\ out.pre.elems[2] # out.pre.elems[3]
    /\ out.ref.some
    /\ out.ref.val.val = out.pre.elems[3]

UnsafeOps == {"get_unsafe", "get_mut_unsafe", "index", "index_mut"}

\* C3: get_unsafe, get_mut_unsafe and tuple indexing (read and write) panic
\* with the bounds error exactly where get returns None, leaving the matrix
\* as it was, and address the slot of get and get_mut everywhere else.
C3_PanickingAccessAgreesWithGet ==
    out.op \in UnsafeOps =>
        LET m == out.pre
            oob == OutOfBounds(m, out.row, out.col)
            g == get(m, out.row, out.col)
            gm == get_mut(m, out.row, out.col)
        IN  /\ IsPanic(out.ref) <=> oob
            /\ IsPanic(out.ref) <=> (~IsPanic(g) /\ ~g.some)
            /\ IsPanic(out.ref) =>
                /\ out.ref.panic = "matrix index out of bounds"
                /\ out.ref.row = out.row /\ out.ref.col = out.col
                /\ out.ref.rows = m.rows /\ out.ref.cols = m.cols
                /\ pc = "panicked"
                /\ mats[IF out.op = "index" \/ out.op = "get_unsafe" THEN 1 ELSE out.k] = m
            /\ ~IsPanic(out.ref) =>
                /\ g.some /\ out.ref.slot = g.val.slot
                /\ gm.some /\ out.ref.slot = gm.val.slot
                /\ out.ref.slot = out.col * m.rows + out.row

\* A tuple-indexed write whose row alone is out of bounds has panicked.
C3_Witness ==
    /\ out.op = "index_mut"
    /\ out.pre.rows = 1 /\ out.pre.cols = 2
    /\ out.row = 1 /\ out.col = 1
    /\ IsPanic(out.ref)
    /\ pc = "panicked"

WriteOps == {"index_mut", "get_mut", "get_mut_unsafe"}

\* C4: a write at a valid (row, col) is read back there, changes no other
\* slot and no other coordinate's element, and the array keeps its R*C
\* elements after any sequence of writes.
C4_WriteReadRoundTrip ==
    /\ \A k \in 1..Len(mats) :
        Len(mats[k].elems) = mats[k].rows * mats[k].cols
    /\ (out.op \in WriteOps /\ ~OutOfBounds(out.pre, out.row, out.col)) =>
        LET m == out.pre
            after == mats[out.k]
            slot == out.col * m.rows + out.row
        IN  /\ ~IsPanic(out.post)
            /\ after = out.post
            /\ after.rows = m.rows /\ after.cols = m.cols
            /\ Len(after.elems) = Len(m.elems)
            /\ get(after, out.row, out.col).some
            /\ get(after, out.row, out.col).val.val = out.value
            /\ \A s \in 0..(Len(m.elems) - 1) :
                s # slot => after.elems[s + 1] = m.elems[s + 1]
            /\ \A r \in Rows(m), c \in ColsOf(m) :
                <<r, c>> # <<out.row, out.col>> =>
                    /\ get(after, r, c).val.slot # slot
                    /\ get(after, r, c).val.val = get(m, r, c).val.val

\* A write through get_mut that changes (1, 0) of a 2x2 matrix whose other
\* elements are not zero.
C4_Witness ==
    /\ out.op = "get_mut"
    /\ out.pre.rows = 2 /\ out.pre.cols = 2
    /\ out.row = 1 /\ out.col = 0
    /\ out.pre.elems = <<2, 2, -1, 2>>
    /\ out.value = 0
    /\ a.elems = <<2, 0, -1, 2>>

\* C5: from_cols of the element arrays of a.cols() is equal to a, and
\* from_cols(columns) has columns[c][r] at (r, c).
C5_ColsFromColsRoundTrip ==
    /\ out.op = "cols_from_cols" =>
        /\ WellShaped(out.res, out.pre.rows, out.pre.cols)
        /\ eq(out.res, out.pre)
        /\ \A r \in Rows(out.pre), c \in ColsOf(out.pre) :
            At(out.res, r, c) = At(out.pre, r, c)
    /\ out.op = "from_cols" =>
        /\ WellShaped(out.res, out.rows, out.cols)
        /\ \A r \in 0..(out.rows - 1), c \in 0..(out.cols - 1) :
            At(out.res, r, c) = out.columns[c + 1][r + 1]

\* The round trip of a 2x2 matrix that is not symmetric.
C5_Witness ==
    /\ out.op = "cols_from_cols"
    /\ out.pre.rows = 2 /\ out.pre.cols = 2
    /\ out.pre.elems[2] # out.pre.elems[3]
    /\ out.res.elems = out.pre.elems

\* C6: cols() returns C vectors of shape R x 1, the i-th holding column i
\* of the matrix and nothing of the identity placeholder.
C6_ColsAreTheColumns ==
    out.op = "cols" =>
        /\ ~IsPanic(out.res)
        /\ Len(out.res.array) = out.pre.cols
        /\ \A i \in ColsOf(out.pre) :
            /\ WellShaped(out.res.array[i + 1], out.pre.rows, 1)
            /\ \A r \in Rows(out.pre) :
                At(out.res.array[i + 1], r, 0) = At(out.pre, r, i)

\* The columns of a 2x2 matrix whose columns differ and whose (0, 1) is not
\* the placeholder's 1.
C6_Witness ==
    /\ out.op = "cols"
    /\ out.pre.rows = 2 /\ out.pre.cols = 2
    /\ out.pre.elems[1] # out.pre.elems[3]
    /\ out.pre.elems[3] # 1
    /\ out.res.array[2].elems = <<out.pre.elems[3], out.pre.elems[4]>>

\* C7: from_slice returns None, without panicking, exactly when the length
\* of the source is not R*C; otherwise a matrix whose array is the source.
C7_FromSliceLength ==
    out.op = "from_slice" =>
        /\ ~IsPanic(out.res)
        /\ ~out.res.some <=> Len(out.src) # out.rows * out.cols
        /\ out.res.some =>
            /\ WellShaped(out.res.val, out.rows, out.cols)
            /\ out.res.val.elems = out.src

\* A source of four elements for a 1x2 matrix is refused.
C7_Witness ==
    /\ out.op = "from_slice"
    /\ out.rows = 1 /\ out.cols = 2
    /\ Len(out.src) = 4
    /\ out.res = None

Diagonal(m, value) ==
    \A i \in Rows(m), j \in ColsOf(m) :
        At(m, i, j) = IF i = j THEN value ELSE 0

\* C8: identity_elems(value) has value at every (i, i) and 0 elsewhere for
\* any shape, without panicking; identity() and default() are that with 1,
\* empty() is all zeros.
C8_IdentityElemsDiagonal ==
    /\ out.op = "identity_elems" =>
        (WellShaped(out.res, out.rows, out.cols) /\ Diagonal(out.res, out.elem))
    /\ out.op \in {"identity", "default"} =>
        (WellShaped(out.res, out.rows, out.cols) /\ Diagonal(out.res, 1))
    /\ out.op = "empty" =>
        (WellShaped(out.res, out.rows, out.cols) /\ Diagonal(out.res, 0))

\* identity_elems(2) for the shape 2x1, which has more rows than columns.
C8_Witness ==
    /\ out.op = "identity_elems"
    /\ out.rows = 2 /\ out.cols = 1
    /\ out.elem = 2
    /\ out.res.elems = <<2, 0>>

C10_ElementwiseArithmetic ==
    /\ out.op = "add" =>
        /\ WellShaped(out.res, a.rows, a.cols)
        /\ \A r \in Rows(a), c \in ColsOf(a) :
            At(out.res, r, c) = At(a, r, c) + At(b, r, c)
    /\ out.op = "sub" =>
        /\ WellShaped(out.res, a.rows, a.cols)
        /\ \A r \in Rows(a), c \in ColsOf(a) :
            At(out.res, r, c) = At(a, r, c) - At(b, r, c)
    /\ out.op = "mul_f64" =>
        /\ WellShaped(out.res, a.rows, a.cols)
        /\ \A r \in Rows(a), c \in ColsOf(a) :
            At(out.res, r, c) = At(a, r, c) * out.rhs

\* A sum of two 2x1 matrices whose last elements are not zero.
C10_Witness ==
    /\ out.op = "add"
    /\ a.rows = 2 /\ a.cols = 1
    /\ At(a, 1, 0) = 2 /\ At(b, 1, 0) = -1
    /\ At(out.res, 1, 0) = 1

====
